---- MODULE Spec2Model ----
(***************************************************************************)
(* Block decomposition of bigstream's distributed resampling, field        *)
(* inversion and point transformation:                                     *)
(*   src/bigstream/distributed_transform.py  (entry points tagged "dt")    *)
(*   src/bigstream/piecewise_transform.py    (entry points tagged "pw")    *)
(* Volumes, blocks and points have three axes, as the (i, j, k) loops of   *)
(* the source have.  A slice is a record [start, stop] (half open).        *)
(***************************************************************************)
EXTENDS Integers, Sequences, FiniteSets, TLC

VARIABLES fn, args, pc, blocks_coords, futures, aligned_data, writers, result

vars == <<fn, args, pc, blocks_coords, futures, aligned_data, writers, result>>

-----------------------------------------------------------------------------
(* Bounds of the model *)

MaxShape == 3
MaxBlock == 2
OverlapDen == 4
MaxTasks == 2
MaxLength == 4

(* Program constants *)

NDim == 3
PwInvertOverlapDen == 4

Axes == 1..NDim

-----------------------------------------------------------------------------
(* Arithmetic of numpy on the integers *)

Min(a, b) == IF a <= b THEN a ELSE b

Max(a, b) == IF a >= b THEN a ELSE b

\* np.ceil(n / d) for n >= 0, d > 0
Ceil(n, d) == (n + d - 1) \div d

\* np.floor(n / d) for d > 0
Floor(n, d) == n \div d

\* np.round(n / d) for n >= 0, d > 0: halves go to the even neighbour
Round(n, d) ==
    LET q == n \div d
        r == n % d
    IN  IF 2 * r < d THEN q
        ELSE IF 2 * r > d THEN q + 1
        ELSE IF q % 2 = 0 THEN q ELSE q + 1

RECURSIVE Prod(_, _)
Prod(f, a) == IF a > NDim THEN 1 ELSE f[a] * Prod(f, a + 1)

-----------------------------------------------------------------------------
(* Block planning *)

\* nblocks = np.ceil(shape / blocksize)
NBlocks(shape, blocksize) == [a \in Axes |-> Ceil(shape[a], blocksize[a])]

\* overlaps = np.round(blocksize * overlap_factor), overlap_factor = num / den
Overlaps(blocksize, num, den) == [a \in Axes |-> Round(blocksize[a] * num, den)]

NumBlocks(shape, blocksize) == Prod(NBlocks(shape, blocksize), 1)

\* the k-th (1-based) multi-index of np.ndindex(*nblocks): last axis fastest
NdIndex(nblocks, k) ==
    [a \in Axes |-> ((k - 1) \div Prod(nblocks, a + 1)) % nblocks[a]]

\* a stop that adds the overlap once: the high side of the block gets none
ExtendedStopOneOverlap(start, bs, ov) == start + bs + ov

\* start = blocksize * index - overlap; stop = start + blocksize + 2 * overlap
ExtendedStop(start, bs, ov) == start + bs + 2 * ov

\* the clip with np.minimum(shape, stop) left out
ClipSliceLowOnly(start, stop, size) == [start |-> Max(0, start), stop |-> stop]

\* start = np.maximum(0, start); stop = np.minimum(shape, stop)
ClipSlice(start, stop, size) == [start |-> Max(0, start), stop |-> Min(size, stop)]

ExtendedSlice(shape, blocksize, overlaps, index) ==
    [a \in Axes |->
        LET start == blocksize[a] * index[a] - overlaps[a]
        IN  ClipSlice(start, ExtendedStop(start, blocksize[a], overlaps[a]), shape[a])]

\* blocks_coords, in the order of np.ndindex
PlanBlocks(shape, blocksize, overlaps) ==
    [k \in 1..NumBlocks(shape, blocksize) |->
        ExtendedSlice(shape, blocksize, overlaps,
                      NdIndex(NBlocks(shape, blocksize), k))]

\* piecewise field inversion: coords = [start, min(shape, start + blocksize))
PwCanonicalSlice(shape, blocksize, index) ==
    [a \in Axes |->
        [start |-> blocksize[a] * index[a],
         stop  |-> Min(shape[a], blocksize[a] * index[a] + blocksize[a])]]

\* piecewise field inversion: coords_ol = [max(0, start - overlap), min(shape, stop + overlap))
PwOverlapSlice(shape, blocksize, overlaps, index) ==
    [a \in Axes |->
        LET start == blocksize[a] * index[a]
            stop  == start + blocksize[a]
        IN  ClipSlice(start - overlaps[a], stop + overlaps[a], shape[a])]

-----------------------------------------------------------------------------
(* Overlap crop *)

\* python's a[ov:] on an axis of length len keeps len - min(ov, len) elements
DropLeft(len, ov) == len - Min(ov, len)

\* left side: taken when block_coords[axis].start != 0
CropLeft(c, ov) ==
    IF c.start # 0
    THEN [start |-> c.start + ov, lo |-> Min(ov, c.stop - c.start),
          len |-> DropLeft(c.stop - c.start, ov)]
    ELSE [start |-> c.start, lo |-> 0, len |-> c.stop - c.start]

\* the right trim left out: the block keeps its overlap on the high side
CropRightNever(l, c, bs) ==
    [start |-> l.start, stop |-> c.stop, lo |-> l.lo, len |-> l.len]

\* a right trim that cuts the block and leaves the stop of the slice as it was
CropRightStaleStop(l, c, bs) ==
    IF l.len > bs
    THEN [start |-> l.start, stop |-> c.stop, lo |-> l.lo, len |-> bs]
    ELSE [start |-> l.start, stop |-> c.stop, lo |-> l.lo, len |-> l.len]

\* right side: taken when aligned_block.shape[axis] > blocksize[axis]
CropRight(l, c, bs) ==
    IF l.len > bs
    THEN [start |-> l.start, stop |-> l.start + bs, lo |-> l.lo, len |-> bs]
    ELSE [start |-> l.start, stop |-> c.stop, lo |-> l.lo, len |-> l.len]

\* one axis of "crop out overlap" in _transform_single_block and _invert_block:
\* start, stop: the placement slice; lo, len: the part of the block that is kept
CropAxis(c, ov, bs) == CropRight(CropLeft(c, ov), c, bs)

\* the crop of a block result whose shape is that of its extended slice
CropBlock(coords, overlaps, blocksize) ==
    LET cr == [a \in Axes |-> CropAxis(coords[a], overlaps[a], blocksize[a])]
    IN  [coords |-> [a \in Axes |-> [start |-> cr[a].start, stop |-> cr[a].stop]],
         lo     |-> [a \in Axes |-> cr[a].lo],
         shape  |-> [a \in Axes |-> cr[a].len]]

\* the crop of the piecewise closures (transform_single_block, invert_block): the same
\* two trims, no slice bookkeeping; the caller places the block at `slot`
PwCropBlock(coords, overlaps, blocksize, slot) ==
    LET cr == [a \in Axes |-> CropAxis(coords[a], overlaps[a], blocksize[a])]
    IN  [coords |-> slot,
         lo     |-> [a \in Axes |-> cr[a].lo],
         shape  |-> [a \in Axes |-> cr[a].len]]

\* da.map_blocks(..., chunks=blocksize): the chunk of block `index`
PwChunkSlot(blocksize, index) ==
    [a \in Axes |-> [start |-> blocksize[a] * index[a],
                     stop  |-> blocksize[a] * index[a] + blocksize[a]]]

-----------------------------------------------------------------------------
(* Inputs *)

Shapes == [Axes -> 1..MaxShape]

BlockSizes == [Axes -> 1..MaxBlock]

\* overlap_factor in [0, 1], as num / den
OverlapFactors == {[num |-> n, den |-> OverlapDen] : n \in 0..OverlapDen}

\* piecewise field inversion: overlap = np.round(blocksize * 0.25)
PwInvertOverlap == [num |-> 1, den |-> PwInvertOverlapDen]

PlanFns == {"apply_dt", "apply_pw", "invert_dt", "invert_pw"}

PlanArgs(f) ==
    {[shape |-> s, blocksize |-> b, overlap |-> o] :
        s \in Shapes, b \in BlockSizes,
        o \in IF f = "invert_pw" THEN {PwInvertOverlap} ELSE OverlapFactors}

ArgOverlaps == Overlaps(args.blocksize, args.overlap.num, args.overlap.den)

ArgNBlocks == NBlocks(args.shape, args.blocksize)

\* the multi-index of the k-th block
BlockIndex(k) == NdIndex(ArgNBlocks, k)

\* the canonical extent of the k-th block: [blocksize * index, min(shape, that + blocksize))
Canonical(k) == PwCanonicalSlice(args.shape, args.blocksize, BlockIndex(k))

\* the voxel indexes of an array of the given shape
VoxelsOf(shape) ==
    {<<x, y, z>> : x \in 0..(shape[1] - 1), y \in 0..(shape[2] - 1), z \in 0..(shape[3] - 1)}

Voxels == VoxelsOf(args.shape)

InSlice(v, sl) == \A a \in Axes : sl[a].start <= v[a] /\ v[a] < sl[a].stop

-----------------------------------------------------------------------------
(* Planning and cropping as functions of the arguments: the blocks of a call are *)
(* planned, then the crop of every block is evaluated                            *)

InitPlan ==
    /\ fn \in PlanFns
    /\ args \in PlanArgs(fn)
    /\ pc = "start"
    /\ blocks_coords = <<>>
    /\ futures = <<>>
    /\ aligned_data = <<>>
    /\ writers = <<>>
    /\ result = "none"

\* "get overlap and number of blocks" and "prepare block coordinates"
Plan ==
    /\ pc = "start"
    /\ blocks_coords' =
          IF fn = "invert_pw"
          THEN [k \in 1..NumBlocks(args.shape, args.blocksize) |->
                   PwOverlapSlice(args.shape, args.blocksize, ArgOverlaps, BlockIndex(k))]
          ELSE PlanBlocks(args.shape, args.blocksize, ArgOverlaps)
    /\ pc' = "planned"
    /\ UNCHANGED <<fn, args, futures, aligned_data, writers, result>>

\* "crop out overlap" of every block
Crop ==
    /\ pc = "planned"
    /\ futures' =
          [k \in 1..Len(blocks_coords) |->
              IF fn \in {"apply_dt", "invert_dt"}
              THEN CropBlock(blocks_coords[k], ArgOverlaps, args.blocksize)
              ELSE PwCropBlock(blocks_coords[k], ArgOverlaps, args.blocksize,
                               IF fn = "invert_pw" THEN Canonical(k)
                               ELSE PwChunkSlot(args.blocksize, BlockIndex(k)))]
    /\ pc' = "cropped"
    /\ UNCHANGED <<fn, args, blocks_coords, aligned_data, writers, result>>

NextPlan == Plan \/ Crop

SpecPlan == InitPlan /\ [][NextPlan]_vars

AllCropped == pc = "cropped"

\* C1: the placement slices returned by the crop of _transform_single_block, one per
\* block of distributed_apply_transform, tile the volume: every voxel lies in the
\* placement slice of exactly one block.
C1_PlacementTiles ==
    (fn = "apply_dt" /\ AllCropped) =>
        \A v \in Voxels :
            Cardinality({k \in 1..Len(futures) : InSlice(v, futures[k].coords)}) = 1

\* C2: the crop of a block result shaped like the block's extended slice has, on every
\* axis, the length of the block's canonical extent.
C2_CropIsCanonicalLength ==
    (fn \in {"apply_dt", "invert_dt", "apply_pw"}) =>
        \A k \in 1..Len(futures) : \A a \in Axes :
            futures[k].shape[a] = Canonical(k)[a].stop - Canonical(k)[a].start

\* C9: every block's extended slice lies within [0, shape) on every axis and contains
\* the block's canonical slice.
C9_ExtendedClippedAndCovering ==
    \A k \in 1..Len(blocks_coords) :
        LET canonical == Canonical(k)
        IN  \A a \in Axes :
                /\ 0 <= blocks_coords[k][a].start
                /\ blocks_coords[k][a].stop <= args.shape[a]
                /\ blocks_coords[k][a].start <= canonical[a].start
                /\ canonical[a].stop <= blocks_coords[k][a].stop
                /\ canonical[a].start < canonical[a].stop

\* C9 witness: a planned block whose extended slice is wider than its canonical slice
\* on the low side and is clipped by the volume on the high side.
C9_Witness ==
    \E k \in 1..Len(blocks_coords) : \E a \in Axes :
        /\ 0 < blocks_coords[k][a].start
        /\ blocks_coords[k][a].start < Canonical(k)[a].start
        /\ blocks_coords[k][a].stop = args.shape[a]
        /\ args.blocksize[a] * BlockIndex(k)[a] + args.blocksize[a] + ArgOverlaps[a]
              > args.shape[a]

\* the scenario of shape 256, block size 128 and overlap_factor 0.5 on every axis
ScenarioShape == [a \in Axes |-> 256]

ScenarioBlocksize == [a \in Axes |-> 128]

ScenarioOverlaps == Overlaps(ScenarioBlocksize, 1, 2)

ScenarioBlocks == PlanBlocks(ScenarioShape, ScenarioBlocksize, ScenarioOverlaps)

\* C22: there are ceil(shape / block_size) blocks per axis, and the extended slice of
\* the block of index i is [max(0, block_size*i - overlap), min(shape, block_size*i +
\* block_size + overlap)) with overlap = round(block_size * f); for shape 256, block
\* size 128 and f = 0.5 the overlap is 64, the extended slices are [0:192) for index 0
\* and [64:256) for index 1, and the placement slices are [0:128) and [128:256).
C22_ExtendedSliceFormula ==
    /\ (fn \in {"apply_dt", "apply_pw"} /\ pc # "start") =>
          /\ Len(blocks_coords)
                = Prod([a \in Axes |-> Ceil(args.shape[a], args.blocksize[a])], 1)
          /\ \A k \in 1..Len(blocks_coords) : \A a \in Axes :
                LET bs == args.blocksize[a]
                    ov == Round(bs * args.overlap.num, args.overlap.den)
                    i  == BlockIndex(k)[a]
                IN  /\ blocks_coords[k][a].start = Max(0, bs * i - ov)
                    /\ blocks_coords[k][a].stop = Min(args.shape[a], bs * i + bs + ov)
    /\ ScenarioOverlaps = [a \in Axes |-> 64]
    /\ Len(ScenarioBlocks) = 8
    /\ ScenarioBlocks[1] = [a \in Axes |-> [start |-> 0, stop |-> 192]]
    /\ ScenarioBlocks[8] = [a \in Axes |-> [start |-> 64, stop |-> 256]]
    /\ CropBlock(ScenarioBlocks[1], ScenarioOverlaps, ScenarioBlocksize).coords
          = [a \in Axes |-> [start |-> 0, stop |-> 128]]
    /\ CropBlock(ScenarioBlocks[8], ScenarioOverlaps, ScenarioBlocksize).coords
          = [a \in Axes |-> [start |-> 128, stop |-> 256]]

\* C22 witness: the blocks of a resampling call are planned, and one of them, not the
\* first on its axis, starts above 0 by its overlap and is clipped at the volume's end.
C22_Witness ==
    /\ fn \in {"apply_dt", "apply_pw"}
    /\ pc = "planned"
    /\ \E k \in 1..Len(blocks_coords) : \E a \in Axes :
          /\ BlockIndex(k)[a] >= 1
          /\ ArgOverlaps[a] >= 1
          /\ blocks_coords[k][a].start > 0
          /\ blocks_coords[k][a].stop = args.shape[a]
          /\ blocks_coords[k][a].stop - blocks_coords[k][a].start
                < args.blocksize[a] + 2 * ArgOverlaps[a]

\* C16: on each axis the crop drops the first overlap[axis] elements of the block, and
\* moves the start of the placement slice up by overlap[axis], exactly when the block's
\* index on that axis is above 0; a block of index 0 keeps its low side.
C16_LeftTrimIffInterior ==
    \A k \in 1..Len(futures) : \A a \in Axes :
        IF BlockIndex(k)[a] > 0
        THEN /\ futures[k].lo[a] = ArgOverlaps[a]
             /\ fn \in {"apply_dt", "invert_dt"} =>
                   futures[k].coords[a].start = blocks_coords[k][a].start + ArgOverlaps[a]
        ELSE /\ futures[k].lo[a] = 0
             /\ fn \in {"apply_dt", "invert_dt"} =>
                   futures[k].coords[a].start = blocks_coords[k][a].start

-----------------------------------------------------------------------------
(* distributed_apply_transform (distributed_transform.py): the orchestrator maps  *)
(* _transform_single_block over blocks_coords, the workers run the block tasks in *)
(* any order, and the orchestrator writes each result as it completes             *)

\* the value the resample kernel gives where it has no moving data to read
Fill == <<-1, -1, -1>>

\* an output voxel nothing was written to
Unwritten == <<-2, -2, -2>>

\* the moving volume holds, at every voxel, a value of its own: the voxel's index
Mov(m) == m

Identity == [kind |-> "affine", shift |-> [a \in Axes |-> 0]]

\* a 4x4 affine that translates by one physical unit along the last axis
Translation == [kind |-> "affine", shift |-> [a \in Axes |-> IF a = NDim THEN 1 ELSE 0]]

\* transform_spacing: None, one array for every transform, or a tuple of arrays
NoSpacing == [kind |-> "none", len |-> 0]

ArraySpacing == [kind |-> "array", len |-> 0]

TupleSpacing(n) == [kind |-> "tuple", len |-> n]

\* the length of transform_spacing_list
TransformSpacingLen(transform_list, transform_spacing) ==
    IF transform_spacing.kind = "tuple"
    THEN transform_spacing.len
    ELSE Len(transform_list)

RECURSIVE SumShift(_, _)
SumShift(transform_list, a) ==
    IF transform_list = <<>> THEN 0
    ELSE Head(transform_list).shift[a] + SumShift(Tail(transform_list), a)

\* cs_transform.apply_transform_to_coordinates on a chain of translations
ApplyTransformToCoordinates(point, transform_list) ==
    [a \in Axes |-> point[a] + SumShift(transform_list, a)]

Corners == [Axes -> {0, 1}]

\* the corners of a block as the stop of the slice, not its last voxel
FixCornerAtStop(coords, corner, fix_spacing) ==
    [a \in Axes |->
        (IF corner[a] = 1 THEN coords[a].stop ELSE coords[a].start) * fix_spacing[a]]

\* a = [x.stop-1 if y else x.start ...]; fix_block_coords = a * fix_spacing
FixCorner(coords, corner, fix_spacing) ==
    [a \in Axes |->
        (IF corner[a] = 1 THEN coords[a].stop - 1 ELSE coords[a].start) * fix_spacing[a]]

\* np.round(mov_block_coords / mov_spacing), then np.maximum(0, .), np.minimum(shape, .)
MovCorner(coords, corner, a) ==
    LET mapped == ApplyTransformToCoordinates(
                      FixCorner(coords, corner, args.fix_spacing), args.transform_list)
    IN  Min(args.mov_shape[a], Max(0, Round(mapped[a], args.mov_spacing[a])))

SetMin(S) == CHOOSE x \in S : \A y \in S : x <= y

SetMax(S) == CHOOSE x \in S : \A y \in S : x >= y

\* mov_slices = slice(np.min(corners), np.max(corners)) on every axis
MovSlices(coords) ==
    [a \in Axes |->
        [start |-> SetMin({MovCorner(coords, c, a) : c \in Corners}),
         stop  |-> SetMax({MovCorner(coords, c, a) : c \in Corners})]]

\* cs_transform.apply_transform at fixed voxel v: the moving voxel nearest to the
\* mapped position, read from the fetched block full_mov[mov_slices] only
Resample(mov_slices, v) ==
    LET mapped == ApplyTransformToCoordinates(
                      [a \in Axes |-> v[a] * args.fix_spacing[a]], args.transform_list)
        m      == [a \in Axes |-> Round(mapped[a], args.mov_spacing[a])]
    IN  IF InSlice(m, mov_slices) THEN Mov(m) ELSE Fill

\* _transform_single_block(block_coords): the placement slice and the cropped block
TransformSingleBlock(coords) ==
    CropBlock(coords, ArgOverlaps, args.blocksize)

\* the element of block k's cropped array that a write at `block.coords` puts at v
BlockValue(mov_slices, k, block, v) ==
    Resample(mov_slices,
             [a \in Axes |-> blocks_coords[k][a].start + block.lo[a]
                                + (v[a] - block.coords[a].start)])

\* aligned_data[coords] = block needs the block's shape to be the slice's
ShapeFits(block) ==
    \A a \in Axes :
        Max(0, Min(args.shape[a], block.coords[a].stop)
                 - Min(args.shape[a], block.coords[a].start)) = block.shape[a]

\* aligned_data[finished_block_coords] = aligned_block
WriteBlock(data, k, block) ==
    LET mov_slices == MovSlices(blocks_coords[k])
    IN  [v \in DOMAIN data |->
            IF InSlice(v, block.coords)
            THEN BlockValue(mov_slices, k, block, v)
            ELSE data[v]]

\* the contributions to `writers` of a write of block k
NoteWriter(w, k, block) ==
    [v \in DOMAIN w |-> IF InSlice(v, block.coords) THEN w[v] \cup {k} ELSE w[v]]

\* fix_spacing and mov_spacing: the same on every axis
Spacings == {[a \in Axes |-> 1], [a \in Axes |-> 2]}

\* volumes with one long axis: two voxels wide on the other two axes
ApplyShapes ==
    {s \in [Axes -> 1..MaxLength] : \E d \in Axes : \A a \in Axes \ {d} : s[a] = 2}

\* transform_list with transform_spacing
TransformInputs ==
    {[list |-> <<Identity>>, spacing |-> NoSpacing],
     [list |-> <<Translation>>, spacing |-> ArraySpacing],
     [list |-> <<Identity>>, spacing |-> TupleSpacing(2)]}

\* fix.shape with blocksize: blocks no larger than the volume, at most MaxTasks of them
ApplyGeometries ==
    {g \in [shape : ApplyShapes, blocksize : BlockSizes] :
        /\ \A a \in Axes : g.blocksize[a] <= g.shape[a]
        /\ NumBlocks(g.shape, g.blocksize) <= MaxTasks}

ApplyArgs ==
    {[shape |-> g.shape, blocksize |-> g.blocksize, overlap |-> o,
      fix_spacing |-> fs, mov_spacing |-> fs, mov_shape |-> g.shape,
      transform_list |-> t.list, transform_spacing |-> t.spacing,
      has_sink |-> sink] :
        g \in ApplyGeometries, o \in OverlapFactors, fs \in Spacings,
        t \in TransformInputs, sink \in BOOLEAN}

Blocks == 1..Len(futures)

InitApply ==
    /\ fn = "apply_dt"
    /\ args \in ApplyArgs
    /\ pc = "start"
    /\ blocks_coords = <<>>
    /\ futures = <<>>
    /\ aligned_data = [v \in Voxels |-> Unwritten]
    /\ writers = [v \in Voxels |-> {}]
    /\ result = "none"

\* lines 88-134: plan the blocks and cluster.client.map(_transform_single_block, ...)
SubmitBlocks ==
    /\ pc = "start"
    /\ blocks_coords' = PlanBlocks(args.shape, args.blocksize, ArgOverlaps)
    /\ futures' = [k \in 1..NumBlocks(args.shape, args.blocksize) |->
                      [status |-> "pending"]]
    /\ pc' = "waiting"
    /\ UNCHANGED <<fn, args, aligned_data, writers, result>>

\* a worker runs _transform_single_block on block k to its return
RunBlock(k) ==
    /\ pc = "waiting"
    /\ futures[k].status = "pending"
    /\ futures' = [futures EXCEPT ![k] =
                      [status |-> "finished",
                       block  |-> TransformSingleBlock(blocks_coords[k])]]
    /\ UNCHANGED <<fn, args, pc, blocks_coords, aligned_data, writers, result>>

\* a read or the kernel raises in the task of block k
BlockRaises(k) ==
    /\ pc = "waiting"
    /\ futures[k].status = "pending"
    /\ futures' = [futures EXCEPT ![k] = [status |-> "error"]]
    /\ UNCHANGED <<fn, args, pc, blocks_coords, aligned_data, writers, result>>

\* lines 136-149: as_completed hands over the result of block k
ConsumeBlock(k) ==
    /\ pc = "waiting"
    /\ futures[k].status = "finished"
    /\ IF ~args.has_sink
       THEN /\ futures' = [futures EXCEPT ![k].status = "consumed"]
            /\ UNCHANGED <<pc, aligned_data, writers>>
       ELSE IF ShapeFits(futures[k].block)
       THEN /\ aligned_data' = WriteBlock(aligned_data, k, futures[k].block)
            /\ writers' = NoteWriter(writers, k, futures[k].block)
            /\ futures' = [futures EXCEPT ![k].status = "consumed"]
            /\ UNCHANGED pc
       ELSE /\ pc' = "raised"
            /\ UNCHANGED <<futures, aligned_data, writers>>
    /\ UNCHANGED <<fn, args, blocks_coords, result>>

\* a failure that clears what the call has written so far
ConsumeErrorRollback(k) ==
    /\ pc = "waiting"
    /\ futures[k].status = "error"
    /\ pc' = "raised"
    /\ aligned_data' = [v \in DOMAIN aligned_data |-> Unwritten]
    /\ UNCHANGED <<fn, args, blocks_coords, futures, writers, result>>

\* as_completed(with_results=True) re-raises the exception of a failed task
ConsumeError(k) ==
    /\ pc = "waiting"
    /\ futures[k].status = "error"
    /\ pc' = "raised"
    /\ UNCHANGED <<fn, args, blocks_coords, futures, aligned_data, writers, result>>

\* a return taken as soon as every block is computed, written or not
ReturnBeforeWrites ==
    /\ pc = "waiting"
    /\ \A k \in Blocks : futures[k].status \in {"finished", "consumed"}
    /\ pc' = "done"
    /\ result' = "None"
    /\ UNCHANGED <<fn, args, blocks_coords, futures, aligned_data, writers>>

\* a loop that ends once no future is left to hand over, failed ones passed by
ReturnPastErrors ==
    /\ pc = "waiting"
    /\ \A k \in Blocks : futures[k].status \in {"consumed", "error"}
    /\ pc' = "done"
    /\ result' = "None"
    /\ UNCHANGED <<fn, args, blocks_coords, futures, aligned_data, writers>>

\* the loop over as_completed ends; the function has no return statement
ReturnApply ==
    /\ pc = "waiting"
    /\ \A k \in Blocks : futures[k].status = "consumed"
    /\ pc' = "done"
    /\ result' = "None"
    /\ UNCHANGED <<fn, args, blocks_coords, futures, aligned_data, writers>>

NextApply ==
    \/ SubmitBlocks
    \/ \E k \in Blocks : RunBlock(k)
    \/ \E k \in Blocks : BlockRaises(k)
    \/ \E k \in Blocks : ConsumeBlock(k)
    \/ \E k \in Blocks : ConsumeError(k)
    \/ ReturnApply

SpecApply == InitApply /\ [][NextApply]_vars

\* C3: with a single identity affine and fix_spacing = mov_spacing, the output of the
\* block pipeline equals the moving volume, voxel for voxel, over the fixed shape.
C3_IdentityReproducesMoving ==
    (pc = "done" /\ args.has_sink /\ args.transform_list = <<Identity>>
        /\ args.fix_spacing = args.mov_spacing) =>
        \A v \in Voxels : aligned_data[v] = Mov(v)

\* the sink after the blocks 1..n are written in the order of submission
RECURSIVE SinkInOrder(_)
SinkInOrder(n) ==
    IF n = 0 THEN [v \in Voxels |-> Unwritten]
    ELSE WriteBlock(SinkInOrder(n - 1), n, TransformSingleBlock(blocks_coords[n]))

\* C8: whatever the order in which the block tasks complete, the final content of the
\* output sink is the content that writing the blocks in submission order gives.
C8_SinkIndependentOfOrder ==
    (pc = "done" /\ args.has_sink) => aligned_data = SinkInOrder(Len(futures))

\* C8 witness: a call that returned after two blocks wrote the same voxel of the sink.
C8_Witness ==
    /\ pc = "done"
    /\ args.has_sink
    /\ \E v \in Voxels : Cardinality(writers[v]) >= 2

\* C10: a transform_spacing tuple whose length differs from that of transform_list is
\* detected before any block task is submitted: the call raises with no task mapped.
C10_SpacingMismatchFailsFast ==
    (fn = "apply_dt" /\ args.transform_spacing.kind = "tuple"
        /\ args.transform_spacing.len # Len(args.transform_list)) =>
        (pc \in {"start", "raised"} /\ futures = <<>>)

\* C11: once a block task has raised, the call never returns normally, and the failed
\* task stays failed: it is not submitted again.
C11_TaskFailureAborts ==
    /\ []((\E k \in Blocks : futures[k].status = "error") => pc # "done")
    /\ [][\A k \in Blocks :
             futures[k].status = "error" =>
                 (k \in 1..Len(futures') /\ futures'[k].status = "error" /\ pc' # "done")]_vars

\* C11 witness: a block task has raised, another block's result was already taken, and
\* the call has failed.
C11_Witness ==
    /\ pc = "raised"
    /\ \E k \in Blocks : futures[k].status = "error"
    /\ \E k \in Blocks : futures[k].status = "consumed"

\* C12: with a sink, when a block task fails the step that fails the call leaves the
\* sink as it is, every block written before holds the values it wrote, and nothing
\* is written for the failed block.
C12_NoRollbackNoWriteForFailed ==
    /\ [](args.has_sink =>
            \A k \in Blocks : futures[k].status = "error" =>
                \A v \in Voxels : k \notin writers[v])
    /\ []((args.has_sink /\ pc = "raised") =>
            \A k \in Blocks : futures[k].status = "consumed" =>
                LET mov_slices == MovSlices(blocks_coords[k])
                IN  \A v \in Voxels :
                        InSlice(v, futures[k].block.coords) =>
                            aligned_data[v] = BlockValue(mov_slices, k, futures[k].block, v))
    /\ [][pc' = "raised" => aligned_data' = aligned_data]_vars

\* C12 witness: the call has failed on a block task that raised, after another block
\* was written to the sink.
C12_Witness ==
    /\ args.has_sink
    /\ pc = "raised"
    /\ \E k \in Blocks : futures[k].status = "error"
    /\ \E k \in Blocks :
          /\ futures[k].status = "consumed"
          /\ \E v \in Voxels : k \in writers[v] /\ aligned_data[v] # Unwritten

\* C13: without a sink, a call that returns has put every cropped block into an array
\* at the block's placement slice and returns that array.
C13_NoSinkReturnsArray ==
    (pc = "done" /\ ~args.has_sink) =>
        /\ result # "None"
        /\ \A k \in Blocks : \E v \in Voxels : k \in writers[v]

\* the moving voxel index of a mapped corner of the block: np.round(position / mov_spacing)
MovCornerIndex(coords, corner) ==
    LET mapped == ApplyTransformToCoordinates(
                      FixCorner(coords, corner, args.fix_spacing), args.transform_list)
    IN  [a \in Axes |-> Round(mapped[a], args.mov_spacing[a])]

\* C15: the moving region fetched for a block contains the moving voxel of every mapped
\* corner of the block that lies inside the moving volume.
C15_FetchedRegionHoldsCorners ==
    \A k \in 1..Len(blocks_coords) :
        LET mov_slices == MovSlices(blocks_coords[k])
        IN  \A c \in Corners :
                LET m == MovCornerIndex(blocks_coords[k], c)
                IN  (\A a \in Axes : 0 <= m[a] /\ m[a] < args.mov_shape[a]) =>
                        InSlice(m, mov_slices)

-----------------------------------------------------------------------------
(* distributed_invert_displacement_vector_field, both modules.                    *)
(* distributed_transform.py: _invert_block tasks feed _write_block tasks, which   *)
(* write into inv_vectorfield_array on the workers.                               *)
(* piecewise_transform.py: invert_block writes output_zarr[slices] on the worker  *)
(* when write_path is given; otherwise the orchestrator stores each result.       *)

\* the inverse at voxel v as computed by the task of block k, from the field
\* of that block's extended slice
InverseValue(k, v) == <<k>> \o v

\* np.zeros_like(field), and a zarr output nothing was written to
NoInverse == <<0, -2, -2, -2>>

InvertArgs(f) ==
    {[shape |-> g.shape, blocksize |-> g.blocksize, overlap |-> o, write_path |-> w] :
        g \in ApplyGeometries,
        o \in IF f = "invert_pw" THEN {PwInvertOverlap} ELSE OverlapFactors,
        w \in IF f = "invert_pw" THEN BOOLEAN ELSE {TRUE}}

InitInvert ==
    /\ fn \in {"invert_dt", "invert_pw"}
    /\ args \in InvertArgs(fn)
    /\ pc = "start"
    /\ blocks_coords = <<>>
    /\ futures = <<>>
    /\ aligned_data = [v \in Voxels |-> NoInverse]
    /\ writers = [v \in Voxels |-> {}]
    /\ result = "none"

\* plan the blocks and cluster.client.map the block tasks
SubmitInvert ==
    /\ pc = "start"
    /\ blocks_coords' =
          IF fn = "invert_pw"
          THEN [k \in 1..NumBlocks(args.shape, args.blocksize) |->
                   PwOverlapSlice(args.shape, args.blocksize, ArgOverlaps, BlockIndex(k))]
          ELSE PlanBlocks(args.shape, args.blocksize, ArgOverlaps)
    /\ futures' = [k \in 1..NumBlocks(args.shape, args.blocksize) |->
                      [status |-> "pending"]]
    /\ pc' = "waiting"
    /\ UNCHANGED <<fn, args, aligned_data, writers, result>>

\* output[block.coords] = the cropped inverse of block k
WriteInverse(data, k, block) ==
    [v \in DOMAIN data |->
        IF InSlice(v, block.coords)
        THEN InverseValue(k, [a \in Axes |-> blocks_coords[k][a].start + block.lo[a]
                                               + (v[a] - block.coords[a].start)])
        ELSE data[v]]

\* _invert_block(block_coords) of distributed_transform.py, to its return
InvertBlock(k) ==
    /\ fn = "invert_dt"
    /\ pc = "waiting"
    /\ futures[k].status = "pending"
    /\ futures' = [futures EXCEPT ![k] =
                      [status |-> "inverted",
                       block  |-> CropBlock(blocks_coords[k], ArgOverlaps, args.blocksize)]]
    /\ UNCHANGED <<fn, args, pc, blocks_coords, aligned_data, writers, result>>

\* _write_block(block, output): a worker writes output[block_coords] = block_data
WriteTask(k) ==
    /\ fn = "invert_dt"
    /\ pc = "waiting"
    /\ futures[k].status = "inverted"
    /\ IF ShapeFits(futures[k].block)
       THEN /\ aligned_data' = WriteInverse(aligned_data, k, futures[k].block)
            /\ writers' = NoteWriter(writers, k, futures[k].block)
            /\ futures' = [futures EXCEPT ![k].status = "written"]
       ELSE /\ futures' = [futures EXCEPT ![k].status = "error"]
            /\ UNCHANGED <<aligned_data, writers>>
    /\ UNCHANGED <<fn, args, pc, blocks_coords, result>>

\* invert_block(slices, slices_overlaps) of piecewise_transform.py, to its return:
\* with write_path the worker itself writes output_zarr[slices] = inverse
PwInvertBlock(k) ==
    /\ fn = "invert_pw"
    /\ pc = "waiting"
    /\ futures[k].status = "pending"
    /\ LET block == PwCropBlock(blocks_coords[k], ArgOverlaps, args.blocksize, Canonical(k))
       IN  IF ~args.write_path
           THEN /\ futures' = [futures EXCEPT ![k] = [status |-> "inverted", block |-> block]]
                /\ UNCHANGED <<aligned_data, writers>>
           ELSE IF ShapeFits(block)
           THEN /\ aligned_data' = WriteInverse(aligned_data, k, block)
                /\ writers' = NoteWriter(writers, k, block)
                /\ futures' = [futures EXCEPT ![k] = [status |-> "written", block |-> block]]
           ELSE /\ futures' = [futures EXCEPT ![k] = [status |-> "error"]]
                /\ UNCHANGED <<aligned_data, writers>>
    /\ UNCHANGED <<fn, args, pc, blocks_coords, result>>

\* the field read or the numerical inversion raises in the task of block k
InvertRaises(k) ==
    /\ pc = "waiting"
    /\ futures[k].status = "pending"
    /\ futures' = [futures EXCEPT ![k] = [status |-> "error"]]
    /\ UNCHANGED <<fn, args, pc, blocks_coords, aligned_data, writers, result>>

\* the orchestrator takes the finished future of block k: as_completed over the write
\* tasks (distributed_transform.py), client.gather (piecewise with write_path)
ConsumeWritten(k) ==
    /\ pc = "waiting"
    /\ futures[k].status = "written"
    /\ futures' = [futures EXCEPT ![k].status = "consumed"]
    /\ UNCHANGED <<fn, args, pc, blocks_coords, aligned_data, writers, result>>

\* a store that takes the slice by the position of arrival, not by the future's key
StoreResultByArrival(k) ==
    /\ fn = "invert_pw"
    /\ pc = "waiting"
    /\ futures[k].status = "inverted"
    /\ LET iii   == Cardinality({j \in Blocks : futures[j].status = "consumed"}) + 1
           block == [futures[k].block EXCEPT !.coords = Canonical(iii)]
       IN  IF ShapeFits(block)
           THEN /\ aligned_data' = WriteInverse(aligned_data, k, block)
                /\ writers' = NoteWriter(writers, k, block)
                /\ futures' = [futures EXCEPT ![k].status = "consumed"]
                /\ UNCHANGED pc
           ELSE /\ pc' = "raised"
                /\ UNCHANGED <<futures, aligned_data, writers>>
    /\ UNCHANGED <<fn, args, blocks_coords, result>>

\* piecewise without write_path: iii = future_keys.index(future.key);
\* inverse[block_coords[iii]] = result
StoreResult(k) ==
    /\ fn = "invert_pw"
    /\ pc = "waiting"
    /\ futures[k].status = "inverted"
    /\ IF ShapeFits(futures[k].block)
       THEN /\ aligned_data' = WriteInverse(aligned_data, k, futures[k].block)
            /\ writers' = NoteWriter(writers, k, futures[k].block)
            /\ futures' = [futures EXCEPT ![k].status = "consumed"]
            /\ UNCHANGED pc
       ELSE /\ pc' = "raised"
            /\ UNCHANGED <<futures, aligned_data, writers>>
    /\ UNCHANGED <<fn, args, blocks_coords, result>>

\* the exception of a failed task is re-raised in the orchestrator
InvertFails(k) ==
    /\ pc = "waiting"
    /\ futures[k].status = "error"
    /\ pc' = "raised"
    /\ UNCHANGED <<fn, args, blocks_coords, futures, aligned_data, writers, result>>

\* every future is consumed: piecewise returns the inverse (or output_zarr),
\* distributed_transform.py falls off the end of the function
ReturnInvert ==
    /\ pc = "waiting"
    /\ \A k \in Blocks : futures[k].status = "consumed"
    /\ pc' = "done"
    /\ result' = IF fn = "invert_pw" THEN "inverse" ELSE "None"
    /\ UNCHANGED <<fn, args, blocks_coords, futures, aligned_data, writers>>

NextInvert ==
    \/ SubmitInvert
    \/ \E k \in Blocks : InvertBlock(k)
    \/ \E k \in Blocks : WriteTask(k)
    \/ \E k \in Blocks : PwInvertBlock(k)
    \/ \E k \in Blocks : InvertRaises(k)
    \/ \E k \in Blocks : ConsumeWritten(k)
    \/ \E k \in Blocks : StoreResult(k)
    \/ \E k \in Blocks : InvertFails(k)
    \/ ReturnInvert

SpecInvert == InitInvert /\ [][NextInvert]_vars

\* C7: in the field-inversion paths whose worker tasks write into the shared output,
\* no output voxel is ever written by two block tasks.
C7_WorkerWritesDisjoint ==
    (fn = "invert_dt" \/ (fn = "invert_pw" /\ args.write_path)) =>
        \A v \in Voxels : Cardinality(writers[v]) <= 1

\* C23: when the piecewise field inversion without write_path returns, every voxel of
\* the inverse was stored once, by the block whose canonical slice holds it, with the
\* value that block computed for that voxel: the inverse returned is the same for
\* every order of completion.
C23_StoredByKey ==
    (fn = "invert_pw" /\ ~args.write_path /\ pc = "done") =>
        /\ result = "inverse"
        /\ \A v \in Voxels :
              \E k \in Blocks :
                  /\ InSlice(v, Canonical(k))
                  /\ writers[v] = {k}
                  /\ aligned_data[v] = InverseValue(k, v)

\* C23 witness: the call has returned after its blocks completed out of the order of
\* submission: the last block was stored while the first was still to be stored.
C23_Witness ==
    /\ fn = "invert_pw"
    /\ ~args.write_path
    /\ pc = "waiting"
    /\ Len(futures) >= 2
    /\ futures[Len(futures)].status = "consumed"
    /\ futures[1].status \in {"pending", "inverted"}

-----------------------------------------------------------------------------
(* distributed_apply_transform_to_coordinates, both modules: the points are      *)
(* bucketed by grid cell, one task per non-empty bucket moves its points, and    *)
(* the results are gathered in the order of submission                            *)

MaxCoord == 2
MaxPoints == 2
MaxPartition == 2

MaxSpacing == 2

\* points: any coordinate on the first axis, 0 or 1 on the others
Points == {p \in [Axes -> 0..MaxCoord] : p[3] <= p[2] /\ p[2] <= 1}

RECURSIVE SeqsOf(_, _)
SeqsOf(S, n) ==
    IF n = 0 THEN {<<>>}
    ELSE {Append(q, x) : q \in SeqsOf(S, n - 1), x \in S}

\* coordinates: N >= 1 points, no payload columns
CoordinateSets == UNION {SeqsOf(Points, n) : n \in 1..MaxPoints}

CoordsArgs(f) ==
    IF f = "coords_dt"
    THEN {[coordinates |-> c, voxel_blocksize |-> b, coords_spacing |-> sp,
           transform_list |-> t] :
             c \in CoordinateSets, b \in {[a \in Axes |-> n] : n \in 1..MaxBlock},
             sp \in Spacings, t \in {<<Identity>>, <<Translation>>}}
    ELSE {[coordinates |-> c, partition_size |-> ps, transform_list |-> t] :
             c \in CoordinateSets, ps \in 1..MaxPartition,
             t \in {<<Identity>>, <<Translation>>}}

\* np.min(coordinates, axis=0), np.max(coordinates, axis=0)
MinCoord(coordinates) ==
    [a \in Axes |-> SetMin({coordinates[i][a] : i \in DOMAIN coordinates})]

MaxCoordinate(coordinates) ==
    [a \in Axes |-> SetMax({coordinates[i][a] : i \in DOMAIN coordinates})]

\* distributed_transform.py: phys_blocksize = np.array(voxel_blocksize) * coords_spacing
PhysBlocksize == [a \in Axes |-> args.voxel_blocksize[a] * args.coords_spacing[a]]

\* the pitch of the grid on axis a
Pitch(a) == IF fn = "coords_dt" THEN PhysBlocksize[a] ELSE args.partition_size

\* the grid without the extra cell: np.ceil(vol_size / phys_blocksize)
GridNBlocksNoMargin(vol_size, pitch) == Ceil(vol_size, pitch)

\* distributed_transform.py: nblocks = np.ceil(vol_size / phys_blocksize + 1)
GridNBlocks(vol_size, pitch) == Ceil(vol_size + pitch, pitch)

\* piecewise_transform.py: nblocks = np.ceil(nblocks / partition_size)
PwGridNBlocks(extent, partition_size) == Ceil(extent, partition_size)

CoordsNBlocks ==
    [a \in Axes |->
        LET extent == MaxCoordinate(args.coordinates)[a] - MinCoord(args.coordinates)[a]
        IN  IF fn = "coords_dt" THEN GridNBlocks(extent, Pitch(a))
            ELSE PwGridNBlocks(extent, Pitch(a))]

\* not_too_low * not_too_high for point p and the cell at `index`
InCell(p, index) ==
    \A a \in Axes :
        LET lower_bound == MinCoord(args.coordinates)[a] + Pitch(a) * index[a]
        IN  lower_bound <= p[a] /\ p[a] < lower_bound + Pitch(a)

\* the rows of `coordinates` selected by the cell, in ascending order (np.nonzero)
RECURSIVE PartIndices(_, _)
PartIndices(index, i) ==
    IF i > Len(args.coordinates) THEN <<>>
    ELSE (IF InCell(args.coordinates[i], index) THEN <<i>> ELSE <<>>)
            \o PartIndices(index, i + 1)

\* the non-empty cells among the first n of np.ndindex(*nblocks), in that order
RECURSIVE Buckets(_)
Buckets(n) ==
    IF n = 0 THEN <<>>
    ELSE LET index == NdIndex(CoordsNBlocks, n)
             part  == PartIndices(index, 1)
         IN  IF part # <<>>
             THEN Append(Buckets(n - 1), [index |-> index, indices |-> part])
             ELSE Buckets(n - 1)

RECURSIVE Flatten(_)
Flatten(seqs) == IF seqs = <<>> THEN <<>> ELSE Head(seqs) \o Flatten(Tail(seqs))

\* _transform_coords / transform_partition on a chain of affines: every point of
\* the bucket goes through apply_transform_to_coordinates, in the bucket's order
TransformCoords(bucket) ==
    [j \in 1..Len(bucket.indices) |->
        ApplyTransformToCoordinates(args.coordinates[bucket.indices[j]],
                                    args.transform_list)]

InitCoords ==
    /\ fn \in {"coords_dt", "coords_pw"}
    /\ args \in CoordsArgs(fn)
    /\ pc = "start"
    /\ blocks_coords = <<>>
    /\ futures = <<>>
    /\ aligned_data = <<>>
    /\ writers = <<>>
    /\ result = <<>>

\* "determine partitions of coordinates", then cluster.client.map over the buckets;
\* piecewise: np.concatenate(indices) raises when no bucket was made
PartitionCoords ==
    /\ pc = "start"
    /\ LET buckets == Buckets(Prod(CoordsNBlocks, 1))
       IN  IF fn = "coords_pw" /\ buckets = <<>>
           THEN /\ pc' = "raised"
                /\ UNCHANGED <<blocks_coords, futures>>
           ELSE /\ blocks_coords' = buckets
                /\ futures' = [k \in 1..Len(buckets) |-> [status |-> "pending"]]
                /\ pc' = "waiting"
    /\ UNCHANGED <<fn, args, aligned_data, writers, result>>

\* a worker moves the points of bucket k
RunBucket(k) ==
    /\ pc = "waiting"
    /\ futures[k].status = "pending"
    /\ futures' = [futures EXCEPT ![k] =
                      [status |-> "finished", warped |-> TransformCoords(blocks_coords[k])]]
    /\ UNCHANGED <<fn, args, pc, blocks_coords, aligned_data, writers, result>>

\* the task of bucket k raises
BucketRaises(k) ==
    /\ pc = "waiting"
    /\ futures[k].status = "pending"
    /\ futures' = [futures EXCEPT ![k] = [status |-> "error"]]
    /\ UNCHANGED <<fn, args, pc, blocks_coords, aligned_data, writers, result>>

\* results[indices] = permuted on an array of Len(permuted) rows
Scatter(indices, permuted) ==
    [i \in 1..Len(permuted) |->
        permuted[CHOOSE j \in 1..Len(indices) : indices[j] = i]]

\* cluster.client.gather(futures), then the merge: np.concatenate(results) in
\* distributed_transform.py, results[indices] = permuted in piecewise_transform.py
GatherCoords ==
    /\ pc = "waiting"
    /\ \A k \in Blocks : futures[k].status = "finished"
    /\ LET permuted == Flatten([k \in Blocks |-> futures[k].warped])
           indices  == Flatten([k \in Blocks |-> blocks_coords[k].indices])
       IN  IF fn = "coords_dt"
           THEN pc' = "done" /\ result' = permuted
           ELSE IF \E j \in 1..Len(indices) : indices[j] > Len(permuted)
           THEN pc' = "raised" /\ UNCHANGED result
           ELSE pc' = "done" /\ result' = Scatter(indices, permuted)
    /\ UNCHANGED <<fn, args, blocks_coords, futures, aligned_data, writers>>

\* gather re-raises the exception of a failed task
GatherFails ==
    /\ pc = "waiting"
    /\ \E k \in Blocks : futures[k].status = "error"
    /\ pc' = "raised"
    /\ UNCHANGED <<fn, args, blocks_coords, futures, aligned_data, writers, result>>

NextCoords ==
    \/ PartitionCoords
    \/ \E k \in Blocks : RunBucket(k)
    \/ \E k \in Blocks : BucketRaises(k)
    \/ GatherCoords
    \/ GatherFails

SpecCoords == InitCoords /\ [][NextCoords]_vars

\* the buckets that hold row i of the input
BucketsOf(i) ==
    {k \in 1..Len(blocks_coords) :
        \E j \in 1..Len(blocks_coords[k].indices) : blocks_coords[k].indices[j] = i}

RECURSIVE SumLen(_, _)
SumLen(buckets, n) ==
    IF n = 0 THEN 0 ELSE Len(buckets[n].indices) + SumLen(buckets, n - 1)

\* C4: the call returns as many rows as the input has, and row i of the output is
\* the transformed row i of the input.
C4_OutputInInputOrder ==
    pc = "done" =>
        result = [i \in 1..Len(args.coordinates) |->
                     ApplyTransformToCoordinates(args.coordinates[i], args.transform_list)]

\* C5: in the extent-driven partitioner (piecewise_transform.py) every row of a
\* non-empty input is in exactly one bucket.
C5_ExtentPartitionCoversAll ==
    (fn = "coords_pw" /\ pc # "start") =>
        \A i \in 1..Len(args.coordinates) : Cardinality(BucketsOf(i)) = 1

\* C6: in the grid-aligned partitioner (distributed_transform.py) every row of the
\* input is in exactly one submitted bucket, and the buckets hold as many points in
\* total as the input has.
C6_GridPartitionCoversAll ==
    (fn = "coords_dt" /\ pc # "start") =>
        /\ \A i \in 1..Len(args.coordinates) : Cardinality(BucketsOf(i)) = 1
        /\ SumLen(blocks_coords, Len(blocks_coords)) = Len(args.coordinates)

\* C6 witness: the grid-aligned buckets are submitted for a point set whose extent on
\* some axis is a positive multiple of the pitch, so that its maximum lies on a cell's
\* lower bound, and more than one bucket is made.
C6_Witness ==
    /\ fn = "coords_dt"
    /\ pc = "waiting"
    /\ Len(blocks_coords) >= 2
    /\ \E a \in Axes :
          LET extent == MaxCoordinate(args.coordinates)[a] - MinCoord(args.coordinates)[a]
          IN  extent > 0 /\ extent % Pitch(a) = 0

\* C19: the extent-driven partitioner makes ceil(extent / partition_size) + 1 cells on
\* every axis, and every point on the maximum coordinate of the bounding box is in a
\* bucket.
C19_ExtentGridHasMargin ==
    (fn = "coords_pw" /\ pc # "start") =>
        /\ \A a \in Axes :
              CoordsNBlocks[a]
                  = Ceil(MaxCoordinate(args.coordinates)[a] - MinCoord(args.coordinates)[a],
                         args.partition_size) + 1
        /\ \A i \in 1..Len(args.coordinates) :
              (\E a \in Axes : args.coordinates[i][a] = MaxCoordinate(args.coordinates)[a])
                  => BucketsOf(i) # {}

\* C20: empty cells are skipped and are no fault: one task is submitted per bucket,
\* every bucket holds at least one point, and the call fails only when a task raised.
C20_EmptyCellsAreSkipped ==
    pc # "start" =>
        /\ pc # "raised" => Len(futures) = Len(blocks_coords)
        /\ \A k \in 1..Len(blocks_coords) : Len(blocks_coords[k].indices) >= 1
        /\ pc = "raised" => \E k \in Blocks : futures[k].status = "error"

-----------------------------------------------------------------------------
(* "read relevant region of transform(s)": the crop of a displacement field for a  *)
(* block (_transform_single_block, transform_single_block) and for a bucket of     *)
(* points (_transform_coords, transform_partition), with the origin handed to the  *)
(* coordinate mapping.  fn names the site: "apply_dt", "apply_pw", "coords_dt",    *)
(* "coords_pw".                                                                    *)

\* a displacement field's voxel spacing: the same on every axis
FieldSpacings == {[a \in Axes |-> n] : n \in 1..MaxSpacing}

\* a field that covers the physical extent [0, extent) at the given spacing
FieldShape(extent, spacing) == [a \in Axes |-> Ceil(extent[a], spacing[a])]

\* transform[start:stop] on an axis of n voxels: the indexes numpy takes
TakenSlice(start, stop, n) == [start |-> Min(start, n), stop |-> Min(stop, n)]

FieldBlockArgs ==
    {[shape |-> g.shape, blocksize |-> g.blocksize, overlap |-> o,
      fix_spacing |-> fs, transform_spacing |-> ts,
      field_shape |-> FieldShape([a \in Axes |-> g.shape[a] * fs[a]], ts)] :
        g \in ApplyGeometries, o \in OverlapFactors, fs \in Spacings, ts \in FieldSpacings}

FieldCoordsArgs(f) ==
    IF f = "coords_dt"
    THEN {[coordinates |-> c, voxel_blocksize |-> b, coords_spacing |-> sp,
           transform_spacing |-> sp,
           field_shape |-> FieldShape([a \in Axes |-> MaxCoord + 1], sp)] :
             c \in CoordinateSets, b \in {[a \in Axes |-> n] : n \in 1..MaxBlock},
             sp \in Spacings}
    ELSE {[coordinates |-> c, partition_size |-> ps, transform_spacing |-> ts,
           field_shape |-> FieldShape([a \in Axes |-> MaxCoord + 1], ts)] :
             c \in CoordinateSets, ps \in 1..MaxPartition, ts \in FieldSpacings}

\* start = np.floor(fix_origin / spacing_t); stop = np.ceil(stop * fix_spacing / spacing_t)
BlockFieldCrop(coords) ==
    LET t == args.transform_spacing
    IN  [a \in Axes |->
            [start |-> Floor(coords[a].start * args.fix_spacing[a], t[a]),
             stop  |-> Ceil(coords[a].stop * args.fix_spacing[a], t[a])]]

\* transform_origin[iii] = start * transform_spacing_list[iii]
BlockFieldOrigin(coords) ==
    [a \in Axes |-> BlockFieldCrop(coords)[a].start * args.transform_spacing[a]]

\* the rows of a bucket
BucketPoints(bucket) ==
    [j \in 1..Len(bucket.indices) |-> args.coordinates[bucket.indices[j]]]

\* transform_partition: start = min(last_index, floor(a / spacing)),
\* stop = ceil(b / spacing) + 1, with a, b the minimum and maximum of the bucket
PartitionFieldCrop(bucket) ==
    LET t == args.transform_spacing
        lo == MinCoord(BucketPoints(bucket))
        hi == MaxCoordinate(BucketPoints(bucket))
    IN  [a \in Axes |->
            [start |-> Min(args.field_shape[a] - 1, Floor(lo[a], t[a])),
             stop  |-> Ceil(hi[a], t[a]) + 1]]

\* transform_partition: transform_origin=a
PartitionFieldOrigin(bucket) == MinCoord(BucketPoints(bucket))

\* _transform_coords: the crop runs from the start of block_slice_coords to its stop,
\* or to the end of the field when the field is longer than the stop
CellFieldCrop(bucket) ==
    [a \in Axes |->
        LET start == args.voxel_blocksize[a] * bucket.index[a]
            stop  == start + args.voxel_blocksize[a]
        IN  [start |-> start,
             stop  |-> IF args.field_shape[a] > stop THEN args.field_shape[a] ELSE stop]]

\* _transform_coords: transform_origin=block_origin, the lower bound of the grid cell
CellFieldOrigin(bucket) ==
    [a \in Axes |-> MinCoord(args.coordinates)[a] + Pitch(a) * bucket.index[a]]

\* what one unit of work crops from the field and hands on: the crop as computed, the
\* voxels taken, the local origin, and (blocks) the corner positions that are mapped
FieldUnit(k) ==
    LET unit  == blocks_coords[k]
        crop  == IF fn \in {"apply_dt", "apply_pw"} THEN BlockFieldCrop(unit)
                 ELSE IF fn = "coords_pw" THEN PartitionFieldCrop(unit)
                 ELSE CellFieldCrop(unit)
    IN  [crop    |-> crop,
         taken   |-> [a \in Axes |->
                         TakenSlice(crop[a].start, crop[a].stop, args.field_shape[a])],
         origin  |-> IF fn \in {"apply_dt", "apply_pw"} THEN BlockFieldOrigin(unit)
                     ELSE IF fn = "coords_pw" THEN PartitionFieldOrigin(unit)
                     ELSE CellFieldOrigin(unit),
         corners |-> IF fn \in {"apply_dt", "apply_pw"}
                     THEN {FixCorner(unit, c, args.fix_spacing) : c \in Corners}
                     ELSE {}]

InitField ==
    /\ fn \in {"apply_dt", "apply_pw", "coords_dt", "coords_pw"}
    /\ args \in IF fn \in {"apply_dt", "apply_pw"} THEN FieldBlockArgs
                ELSE FieldCoordsArgs(fn)
    /\ pc = "start"
    /\ blocks_coords = <<>>
    /\ futures = <<>>
    /\ aligned_data = <<>>
    /\ writers = <<>>
    /\ result = "none"

\* the units of work: the extended slices of the blocks, or the buckets of points
PlanUnits ==
    /\ pc = "start"
    /\ blocks_coords' =
          IF fn \in {"apply_dt", "apply_pw"}
          THEN PlanBlocks(args.shape, args.blocksize, ArgOverlaps)
          ELSE Buckets(Prod(CoordsNBlocks, 1))
    /\ pc' = "planned"
    /\ UNCHANGED <<fn, args, futures, aligned_data, writers, result>>

\* every unit of work reads its region of the field
CropField ==
    /\ pc = "planned"
    /\ futures' = [k \in 1..Len(blocks_coords) |-> FieldUnit(k)]
    /\ pc' = "cropped"
    /\ UNCHANGED <<fn, args, blocks_coords, aligned_data, writers, result>>

NextField == PlanUnits \/ CropField

SpecField == InitField /\ [][NextField]_vars

\* the slice of voxels taken from the field is not empty on any axis
CropNotEmpty(unit) == \A a \in Axes : unit.taken[a].start < unit.taken[a].stop

\* C14: for every block, on every axis, the field voxels cropped span the physical
\* positions of the block's corner voxels: crop_start * spacing_t <= position and
\* position <= (crop_stop - 1) * spacing_t.
C14_FieldCropCoversCorners ==
    (fn \in {"apply_dt", "apply_pw"} /\ pc = "cropped") =>
        \A k \in 1..Len(futures) : \A p \in futures[k].corners : \A a \in Axes :
            /\ futures[k].taken[a].start * args.transform_spacing[a] <= p[a]
            /\ p[a] <= (futures[k].taken[a].stop - 1) * args.transform_spacing[a]

\* C18: wherever a field is cropped, for a block or for a bucket of points, the local
\* origin handed to the coordinate mapping is crop_start * spacing_t, crop_start being
\* the first voxel of the crop taken.
C18_OriginIsCropStart ==
    pc = "cropped" =>
        \A k \in 1..Len(futures) :
            CropNotEmpty(futures[k]) =>
                \A a \in Axes :
                    futures[k].origin[a]
                        = futures[k].taken[a].start * args.transform_spacing[a]

\* the physical positions of the corner voxels of a slice: on every axis the first
\* voxel or the last one, times the fixed-image spacing
CornerVoxelPositions(sl) ==
    {[a \in Axes |-> (IF c[a] = 1 THEN sl[a].stop - 1 ELSE sl[a].start)
                        * args.fix_spacing[a]] : c \in Corners}

\* C17 as stated: the corners a block maps through the transform chain are the corners
\* of the block's canonical extent, in physical coordinates.
C17_CornersOfCanonical ==
    (fn \in {"apply_dt", "apply_pw"} /\ pc = "cropped") =>
        \A k \in 1..Len(futures) :
            futures[k].corners = CornerVoxelPositions(Canonical(k))

\* C17 amended: the corners a block maps through the transform chain are the corner
\* voxels of the block's extended slice (the canonical extent widened by the overlap
\* and clipped to the volume), in physical coordinates.
C17_CornersOfExtended ==
    (fn \in {"apply_dt", "apply_pw"} /\ pc = "cropped") =>
        \A k \in 1..Len(futures) :
            futures[k].corners = CornerVoxelPositions(blocks_coords[k])

\* C17 witness: the corners of a block whose extended slice is wider than its
\* canonical extent have been taken.
C17_Witness ==
    /\ fn \in {"apply_dt", "apply_pw"}
    /\ pc = "cropped"
    /\ \E k \in 1..Len(futures) : \E a \in Axes :
          /\ blocks_coords[k][a].start < Canonical(k)[a].start
          /\ futures[k].corners # CornerVoxelPositions(Canonical(k))

-----------------------------------------------------------------------------
(* The fit of a cropped block to its destination, for the crops of SpecPlan *)

====
